---- MODULE Spec2Model ----
(***************************************************************************)
(* Sandboxed code-execution engine of kirosnn/Zen:                         *)
(*   src/tools/utils/sandbox_security.py  (the AST policy validator)       *)
(*   src/tools/code_interpreter.py        (LocalCodeInterpreterTool._run)  *)
(*                                                                         *)
(* Python strings that the code splits, strips or globs are sequences of   *)
(* one-character strings; identifiers that are only compared for equality  *)
(* or set membership (builtin names, attribute names, argv words) are      *)
(* plain strings.  A submitted source is represented by the syntax tree    *)
(* ast.parse builds for it, or by the node Unparseable when ast.parse      *)
(* raises.                                                                 *)
(***************************************************************************)
EXTENDS Integers, Sequences, FiniteSets, TLC

\* ------------------------------------------------------------------------
\* Module names used by the policy and by the submitted sources
\* ------------------------------------------------------------------------

M_os == <<"o", "s">>
M_sys == <<"s", "y", "s">>
M_subprocess == <<"s", "u", "b", "p", "r", "o", "c", "e", "s", "s">>
M_socket == <<"s", "o", "c", "k", "e", "t">>
M_shutil == <<"s", "h", "u", "t", "i", "l">>
M_pathlib == <<"p", "a", "t", "h", "l", "i", "b">>
M_ctypes == <<"c", "t", "y", "p", "e", "s">>
M_multiprocessing == <<"m", "u", "l", "t", "i", "p", "r", "o", "c", "e", "s", "s", "i", "n", "g">>
M_threading == <<"t", "h", "r", "e", "a", "d", "i", "n", "g">>
M_selectors == <<"s", "e", "l", "e", "c", "t", "o", "r", "s">>
M_resource == <<"r", "e", "s", "o", "u", "r", "c", "e">>
M_psutil == <<"p", "s", "u", "t", "i", "l">>
M_os_path == <<"o", "s", ".", "p", "a", "t", "h">>
M_osx == <<"o", "s", "x">>
M_numpy == <<"n", "u", "m", "p", "y">>
M_numpy_linalg == <<"n", "u", "m", "p", "y", ".", "l", "i", "n", "a", "l", "g">>
M_pandas == <<"p", "a", "n", "d", "a", "s">>
M_requests == <<"r", "e", "q", "u", "e", "s", "t", "s">>
M_subprocess_sub == <<"s", "u", "b", "p", "r", "o", "c", "e", "s", "s", ".", "s", "u", "b">>

\* sandbox_security.py:6-9, 20
FORBIDDEN_MODULES ==
    {M_os, M_sys, M_subprocess, M_socket, M_shutil, M_pathlib,
     M_ctypes, M_multiprocessing, M_threading, M_selectors, M_resource, M_psutil}

\* sandbox_security.py:10, 21
FORBIDDEN_BUILTINS == {"exec", "eval", "compile", "__import__", "open", "input"}

\* sandbox_security.py:11-15, 22
FORBIDDEN_ATTRS ==
    {"system", "popen", "Popen", "run", "call", "check_call", "check_output",
     "remove", "unlink", "rmdir", "walk", "fork", "spawn", "execv", "execve",
     "kill", "terminate", "connect", "send", "recv"}

\* Values of the environment variable SANDBOX_ALLOWED_IMPORTS
Raw_empty == <<>>
Raw_numpy_pandas == <<"n", "u", "m", "p", "y", "*", ",", " ", "p", "a", "n", "d", "a", "s">>
Raw_blank == <<" ", ",", " ">>
Raw_os_star == <<"o", "s", "*">>
Raw_dotted == <<"n", "u", "m", "p", "y", ".", "*">>
Raw_q == <<"o", "s", "?", ",", "p", "a", "n", "d", "a", "s">>
RawAllowedValues == {Raw_empty, Raw_numpy_pandas, Raw_blank, Raw_os_star, Raw_dotted, Raw_q}

P_numpy_star == <<"n", "u", "m", "p", "y", "*">>
P_pandas == <<"p", "a", "n", "d", "a", "s">>

\* ------------------------------------------------------------------------
\* State: one call of LocalCodeInterpreterTool._run and the host it runs on
\* ------------------------------------------------------------------------
VARIABLES
    SANDBOX_BASE_DIR,     \* module global read from the environment (characters)
    RAW_ALLOWED_IMPORTS,  \* os.getenv("SANDBOX_ALLOWED_IMPORTS", "")
    MAX_STDOUT_CHARS,     \* int(os.getenv("SANDBOX_MAX_STDOUT", "10000"))
    self,                 \* the tool: docker_image, timeout, memory, cpus
    code,                 \* _run's argument: the submitted source
    extra_files,          \* _run's argument: a sequence of <<fname, data>>
    pc,                   \* position of the call inside _run
    result,               \* the value _run returned (NoResult before that)
    exception,            \* the exception that left _run ("" if none)
    ops,                  \* the engine operations issued so far, in order
    imageLocal,           \* the target image is in the local image store
    dirs,                 \* host directories created by the call
    files,                \* host files: <<dir, relative path>> -> contents, mode
    container,            \* the container started by the call
    workspace,            \* local of _run
    next_file,            \* index of the next attachment to write
    start_time,           \* local of _run: has the clock been read
    raw_output,           \* local of _run
    execution_time,       \* local of _run
    stdout_display,       \* local of _run
    artifacts,            \* local of _run: artifact_list, zip_path, copied_files
    outcome,              \* which branch of lines 209-229 the run took
    runs,                 \* calls of _run issued concurrently by one process
    clock,                \* the host's UTC clock, in seconds after 12:00:00
    verdicts,             \* what direct calls of validate_code_ast gave
    temp_dir              \* local of _build_custom_image

\* ------------------------------------------------------------------------
\* String helpers (Python str methods used by sandbox_security.py)
\* ------------------------------------------------------------------------

\* s.split(sep)[0]: the characters before the first separator
RECURSIVE SplitFirst(_, _)
SplitFirst(s, sep) ==
    IF s = <<>> \/ Head(s) = sep THEN <<>>
    ELSE <<Head(s)>> \o SplitFirst(Tail(s), sep)

\* s.split(sep): the fields between separators (one field for an empty s)
RECURSIVE Split(_, _)
Split(s, sep) ==
    LET first == SplitFirst(s, sep)
    IN  IF Len(first) = Len(s) THEN <<first>>
        ELSE <<first>> \o Split(SubSeq(s, Len(first) + 2, Len(s)), sep)

RECURSIVE LStrip(_)
LStrip(s) == IF s # <<>> /\ Head(s) = " " THEN LStrip(Tail(s)) ELSE s

RECURSIVE RStrip(_)
RStrip(s) ==
    IF s # <<>> /\ s[Len(s)] = " " THEN RStrip(SubSeq(s, 1, Len(s) - 1)) ELSE s

\* s.strip(), over an alphabet whose only whitespace is the blank
Strip(s) == RStrip(LStrip(s))

\* [p.strip() for p in RAW.split(",") if p.strip()]
RECURSIVE StripNonEmpty(_)
StripNonEmpty(fields) ==
    IF fields = <<>> THEN <<>>
    ELSE IF Strip(Head(fields)) = <<>> THEN StripNonEmpty(Tail(fields))
    ELSE <<Strip(Head(fields))>> \o StripNonEmpty(Tail(fields))

ALLOWED_IMPORT_PATTERNS == StripNonEmpty(Split(RAW_ALLOWED_IMPORTS, ","))

\* fnmatch.fnmatch(name, pat) on a POSIX host (normcase is the identity):
\* "*" matches any run of characters, "?" one character, every other
\* character itself, and the whole name must match.  Patterns with "["
\* classes are not drawn.
RECURSIVE fnmatch(_, _)
fnmatch(name, pat) ==
    IF pat = <<>> THEN name = <<>>
    ELSE IF Head(pat) = "*"
         THEN fnmatch(name, Tail(pat))
              \/ (name # <<>> /\ fnmatch(Tail(name), pat))
    ELSE IF Head(pat) = "?"
         THEN name # <<>> /\ fnmatch(Tail(name), Tail(pat))
    ELSE name # <<>> /\ Head(name) = Head(pat)
         /\ fnmatch(Tail(name), Tail(pat))

\* module_name.split(".")[0]
RootOf(module_name) == SplitFirst(module_name, ".")

\* _is_import_allowed with ALLOWED_IMPORT_PATTERNS given explicitly
IsImportAllowedUnder(patterns, module_name) ==
    IF patterns = <<>> THEN TRUE
    ELSE LET root == IF module_name # <<>> THEN RootOf(module_name) ELSE <<>>
         IN  \E i \in 1..Len(patterns) :
                 fnmatch(module_name, patterns[i]) \/ fnmatch(root, patterns[i])

_is_import_allowed(module_name) ==
    IsImportAllowedUnder(ALLOWED_IMPORT_PATTERNS, module_name)

\* ------------------------------------------------------------------------
\* Syntax trees (the nodes ast.parse produces and ast.walk visits)
\* ------------------------------------------------------------------------
\* t: the node class; id: Name.id, Attribute.attr or FunctionDef.name;
\* mod: alias.name or ImportFrom.module ("" when module is None);
\* level: ImportFrom.level; ch: the child nodes in ast.iter_child_nodes
\* order (expr_context children, which no rule inspects, are left out).
Node(t, id, mod, level, ch) ==
    [t |-> t, id |-> id, mod |-> mod, level |-> level, ch |-> ch]

Name(id)               == Node("Name", id, <<>>, 0, <<>>)
Constant               == Node("Constant", "", <<>>, 0, <<>>)
Attribute(value, attr) == Node("Attribute", attr, <<>>, 0, <<value>>)
Subscript(value, idx)  == Node("Subscript", "", <<>>, 0, <<value, idx>>)
\* Call.func is the first child, the arguments follow
Call(func, args)       == Node("Call", "", <<>>, 0, <<func>> \o args)
alias(name)            == Node("alias", "", name, 0, <<>>)
Import(names) ==
    Node("Import", "", <<>>, 0, [i \in DOMAIN names |-> alias(names[i])])
ImportFrom(module, level, names) ==
    Node("ImportFrom", "", module, level, [i \in DOMAIN names |-> alias(names[i])])
Expr(value)            == Node("Expr", "", <<>>, 0, <<value>>)
Assign(target, value)  == Node("Assign", "", <<>>, 0, <<target, value>>)
FunctionDef(name, body) == Node("FunctionDef", name, <<>>, 0, body)
Module(body)           == Node("Module", "", <<>>, 0, body)
\* a source text on which ast.parse raises
Unparseable            == Node("Unparseable", "", <<>>, 0, <<>>)

\* ast.walk: breadth-first, a deque popped on the left and extended with
\* the popped node's children
RECURSIVE WalkQueue(_)
WalkQueue(todo) ==
    IF todo = <<>> THEN <<>>
    ELSE <<Head(todo)>> \o WalkQueue(Tail(todo) \o Head(todo).ch)

Walk(tree) == WalkQueue(<<tree>>)

\* ------------------------------------------------------------------------
\* validate_code_ast
\* ------------------------------------------------------------------------
\* A CodeSafetyError: the message's fixed part and the name it carries.
Violation(kind, id, mod) == [kind |-> kind, id |-> id, mod |-> mod]
NoViolation == Violation("none", "", <<>>)

\* a faulty import rule that asks the allow list before the deny set
RECURSIVE ImportAliasViolationAllowFirst(_)
ImportAliasViolationAllowFirst(aliases) ==
    IF aliases = <<>> THEN NoViolation
    ELSE LET name == Head(aliases).mod
             root == RootOf(name)
         IN  IF ~ _is_import_allowed(name)
             THEN Violation("Import not allowed by policy", "", name)
             ELSE IF root \in FORBIDDEN_MODULES
             THEN Violation("Forbidden import detected", "", name)
             ELSE ImportAliasViolationAllowFirst(Tail(aliases))

\* lines 44-49: the first alias of an Import node that breaks a rule
RECURSIVE ImportAliasViolation(_)
ImportAliasViolation(aliases) ==
    IF aliases = <<>> THEN NoViolation
    ELSE LET name == Head(aliases).mod
             root == RootOf(name)
         IN  IF root \in FORBIDDEN_MODULES
             THEN Violation("Forbidden import detected", "", name)
             ELSE IF ~ _is_import_allowed(name)
             THEN Violation("Import not allowed by policy", "", name)
             ELSE ImportAliasViolation(Tail(aliases))

\* a faulty from-import rule that looks the whole dotted name up in the
\* deny set
ImportFromViolationWholeName(node) ==
    LET mod == node.mod
    IN  IF mod \in FORBIDDEN_MODULES
        THEN Violation("Forbidden import from detected", "", mod)
        ELSE IF mod # <<>> /\ ~ _is_import_allowed(mod)
        THEN Violation("Import not allowed by policy", "", mod)
        ELSE NoViolation

\* a faulty from-import rule that never asks the allow list
ImportFromViolationNoPolicy(node) ==
    LET mod  == node.mod
        root == IF mod # <<>> THEN RootOf(mod) ELSE <<>>
    IN  IF root \in FORBIDDEN_MODULES
        THEN Violation("Forbidden import from detected", "", mod)
        ELSE NoViolation

\* lines 51-57
ImportFromViolation(node) ==
    LET mod  == node.mod
        root == IF mod # <<>> THEN RootOf(mod) ELSE <<>>
    IN  IF root \in FORBIDDEN_MODULES
        THEN Violation("Forbidden import from detected", "", mod)
        ELSE IF mod # <<>> /\ ~ _is_import_allowed(mod)
        THEN Violation("Import not allowed by policy", "", mod)
        ELSE NoViolation

\* a faulty reference rule that never fires (only calls get rejected)
NameViolationNever(node) == NoViolation

\* a faulty name rule that knows exec only
NameViolationExecOnly(node) ==
    IF node.id = "exec"
    THEN Violation("Forbidden builtin usage", node.id, <<>>)
    ELSE NoViolation

\* lines 59-60
NameViolation(node) ==
    IF node.id \in FORBIDDEN_BUILTINS
    THEN Violation("Forbidden builtin usage", node.id, <<>>)
    ELSE NoViolation

\* a faulty call rule that looks at the attribute only when the receiver
\* is a plain name
CallViolationNameReceiver(node) ==
    LET func == node.ch[1]
    IN  IF func.t = "Attribute"
        THEN IF func.ch[1].t = "Name" /\ func.id \in FORBIDDEN_ATTRS
             THEN Violation("Forbidden attribute call detected", func.id, <<>>)
             ELSE NoViolation
        ELSE IF func.t = "Name" /\ func.id \in FORBIDDEN_BUILTINS
        THEN Violation("Forbidden function call detected", func.id, <<>>)
        ELSE NoViolation

\* lines 62-70
CallViolation(node) ==
    LET func == node.ch[1]
    IN  IF func.t = "Attribute"
        THEN IF func.id \in FORBIDDEN_ATTRS
             THEN Violation("Forbidden attribute call detected", func.id, <<>>)
             ELSE NoViolation
        ELSE IF func.t = "Name" /\ func.id \in FORBIDDEN_BUILTINS
        THEN Violation("Forbidden function call detected", func.id, <<>>)
        ELSE NoViolation

\* lines 43-70: what visiting one node raises; the four ifs run in order
NodeViolation(node) ==
    LET imp  == IF node.t = "Import" THEN ImportAliasViolation(node.ch)
                ELSE NoViolation
        frm  == IF node.t = "ImportFrom" THEN ImportFromViolation(node)
                ELSE NoViolation
        nam  == IF node.t = "Name" THEN NameViolation(node) ELSE NoViolation
        cal  == IF node.t = "Call" THEN CallViolation(node) ELSE NoViolation
    IN  IF imp # NoViolation THEN imp
        ELSE IF frm # NoViolation THEN frm
        ELSE IF nam # NoViolation THEN nam
        ELSE cal

\* lines 42-70: the first node of the walk that raises
RECURSIVE FirstViolation(_)
FirstViolation(nodes) ==
    IF nodes = <<>> THEN NoViolation
    ELSE IF NodeViolation(Head(nodes)) # NoViolation
    THEN NodeViolation(Head(nodes))
    ELSE FirstViolation(Tail(nodes))

\* lines 36-70: the CodeSafetyError raised, or NoViolation on return
validate_code_ast(src) ==
    IF src.t = "Unparseable"
    THEN Violation("AST parsing error", "", <<>>)
    ELSE FirstViolation(Walk(src))

\* ------------------------------------------------------------------------
\* The submitted sources that are drawn
\* ------------------------------------------------------------------------
\* depth of def-nesting up to which statements are drawn
MaxNest == 1

ModNames ==
    {M_os, M_os_path, M_subprocess_sub, M_socket, M_osx,
     M_numpy, M_numpy_linalg, M_pandas, M_requests}

\* import M / import M, N
ImportStmts ==
    {Import(<<m>>) : m \in ModNames}
    \cup {Import(<<a, b>>) : a \in {M_os, M_numpy, M_requests},
                             b \in {M_os, M_numpy, M_requests}}

\* from M import x / from .M import x / from . import os
ImportFromStmts ==
    {ImportFrom(m, l, <<<<"x">>>>) : m \in ModNames, l \in {0, 1}}
    \cup {ImportFrom(<<>>, 1, <<M_os>>)}

NameIds   == {"x", "eval", "exec", "open"}
AttrIds   == {"system", "Popen", "run", "path"}
Receivers ==
    {Name("x"), Constant, Call(Name("x"), <<>>),
     Subscript(Name("x"), Constant), Attribute(Name("x"), "path")}

Exprs ==
    {Name(id) : id \in NameIds}
    \cup {Constant}
    \cup {Attribute(r, a) : r \in Receivers, a \in AttrIds}
    \cup {Call(Name(id), <<>>) : id \in NameIds}
    \cup {Call(Name("x"), <<Name(id)>>) : id \in NameIds}
    \cup {Call(Attribute(r, a), <<>>) : r \in Receivers, a \in AttrIds}
    \cup {Call(Name("x"), <<Attribute(Name("x"), "system")>>)}

SimpleStmts ==
    ImportStmts \cup ImportFromStmts
    \cup {Expr(e) : e \in Exprs}
    \cup {Assign(Name("x"), Name(id)) : id \in NameIds}
    \cup {Assign(Name("eval"), Constant)}

\* statements with at most n enclosing defs
RECURSIVE Stmts(_)
Stmts(n) ==
    IF n = 0 THEN SimpleStmts
    ELSE SimpleStmts
         \cup {FunctionDef(f, <<s>>) : f \in {"f", "eval"}, s \in Stmts(n - 1)}

\* a statement put before or after the one under study
Companions == {Expr(Constant), Expr(Name("eval")), Import(<<M_requests>>)}

Sources ==
    {Unparseable}
    \cup {Module(<<s>>) : s \in Stmts(MaxNest)}
    \cup {Module(<<c, s>>) : c \in Companions, s \in Stmts(MaxNest)}
    \cup {Module(<<s, c>>) : c \in Companions, s \in Stmts(MaxNest)}


\* ------------------------------------------------------------------------
\* code_interpreter.py: configuration, messages, the values drawn
\* ------------------------------------------------------------------------
SANDBOX_OUTPUT_DIR == "/srv/output"

\* timeout=5 of the version probe, timeout=300 of the pull; None (the
\* image-list query passes no timeout) is written NoTimeout
VERSION_TIMEOUT == 5
PULL_TIMEOUT    == 300
NoTimeout       == 0

\* 0o600, and the mode open() gives a new file under umask 0o022
MODE_0600 == 384
MODE_0644 == 420

\* largest configured execution timeout, longest script run (seconds)
MaxTimeout  == 2
MaxDuration == 3

\* line 222
TimeoutMsg ==
    <<"[", "S", "E", "C", "U", "R", "E", "-", "R", "U", "N", "]", " ", 
      "T", "i", "m", "e", "o", "u", "t", ":", " ", "e", "x", "e", "c", 
      "u", "t", "i", "o", "n", " ", "e", "x", "c", "e", "e", "d", "e", 
      "d", " ", "t", "h", "e", " ", "l", "i", "m", "i", "t", " ", "a", 
      "n", "d", " ", "w", "a", "s", " ", "i", "n", "t", "e", "r", "r", 
      "u", "p", "t", "e", "d", ".">>

\* line 225, with str(e) of the FileNotFoundError
NotFoundMsg ==
    <<"[", "S", "E", "C", "U", "R", "E", "-", "R", "U", "N", "]", " ", 
      "E", "r", "r", "o", "r", ":", " ", "d", "o", "c", "k", "e", "r", 
      " ", "n", "o", "t", " ", "f", "o", "u", "n", "d", " ", "o", "r", 
      " ", "n", "o", "t", " ", "a", "c", "c", "e", "s", "s", "i", "b", 
      "l", "e", ":", " ", "[", "E", "r", "r", "n", "o", " ", "2", "]", 
      " ", "N", "o", " ", "s", "u", "c", "h", " ", "f", "i", "l", "e", 
      " ", "o", "r", " ", "d", "i", "r", "e", "c", "t", "o", "r", "y", 
      ":", " ", "'", "d", "o", "c", "k", "e", "r", "'">>

\* line 228, with str(e) of the exception
ExecErrorMsg ==
    <<"[", "S", "E", "C", "U", "R", "E", "-", "R", "U", "N", "]", " ", 
      "E", "x", "e", "c", "u", "t", "i", "o", "n", " ", "e", "r", "r", 
      "o", "r", ":", " ", "[", "E", "r", "r", "n", "o", " ", "1", "3", 
      "]", " ", "P", "e", "r", "m", "i", "s", "s", "i", "o", "n", " ", 
      "d", "e", "n", "i", "e", "d", ":", " ", "'", "d", "o", "c", "k", 
      "e", "r", "'">>

\* what the docker client prints when the engine refuses the run
EngineRefusedMsg ==
    <<"d", "o", "c", "k", "e", "r", ":", " ", "E", "r", "r", "o", "r", 
      " ", "r", "e", "s", "p", "o", "n", "s", "e", " ", "f", "r", "o", 
      "m", " ", "d", "a", "e", "m", "o", "n", ".">>

\* line 232: the fixed parts of the truncation marker
MarkerHead == <<"\n", ".", ".", ".", "[", "t", "r", "u", "n", "c", "a", "t", "e", 
      "d", " ", "o", "u", "t", "p", "u", "t", ",", " ", "t", "o", "t", 
      "a", "l", " ", "l", "e", "n", "g", "t", "h", " ">>
MarkerTail == <<" ", "c", "h", "a", "r", "s", "]", ".", ".", ".">>

S_script_py == <<"s", "c", "r", "i", "p", "t", ".", "p", "y">>
S_out_txt   == <<"o", "u", "t", ".", "t", "x", "t">>
S_data_csv  == <<"d", "a", "t", "a", ".", "c", "s", "v">>
S_d_data_csv == <<"d", "/", "d", "a", "t", "a", ".", "c", "s", "v">>
S_a_slash   == <<"a", "/">>
S_dotdot    == <<".", ".">>
S_sub       == <<"s", "u", "b">>
S_up_evil   == <<".", ".", "/", "e", "v", "i", "l">>

\* the string of a sequence of characters
RECURSIVE Join(_)
Join(chars) == IF chars = <<>> THEN "" ELSE Head(chars) \o Join(Tail(chars))

\* s.replace(old, new): every occurrence, found from left to right
RECURSIVE Replace(_, _, _)
Replace(s, old, new) ==
    LET hits == {i \in 1..(Len(s) - Len(old) + 1) :
                    \A k \in 1..Len(old) : s[i + k - 1] = old[k]}
    IN  IF hits = {} THEN s
        ELSE LET i == CHOOSE h \in hits : \A g \in hits : h <= g
             IN  SubSeq(s, 1, i - 1) \o new
                     \o Replace(SubSeq(s, i + Len(old), Len(s)), old, new)

\* os.path.dirname(s): what stands before the last separator
Dirname(s) ==
    LET seps == {i \in 1..Len(s) : s[i] = "/"}
    IN  IF seps = {} THEN <<>>
        ELSE SubSeq(s, 1, (CHOOSE i \in seps : \A j \in seps : j <= i) - 1)

\* str(n) for n >= 0
DigitChars == <<"0", "1", "2", "3", "4", "5", "6", "7", "8", "9">>
RECURSIVE Str(_)
Str(n) ==
    IF n < 10 THEN <<DigitChars[n + 1]>>
    ELSE Str(n \div 10) \o <<DigitChars[(n % 10) + 1]>>

\* the tools that are drawn (lines 123-128)
Tools ==
    {[docker_image |-> "python:3.11-slim", timeout |-> t,
      memory |-> "512m", cpus |-> "1.0"] : t \in 1..MaxTimeout}
    \cup {[docker_image |-> "python-sandbox:custom", timeout |-> 1,
           memory |-> "1g", cpus |-> "0.5"]}

\* values of SANDBOX_MAX_STDOUT that are drawn
StdoutCaps == {2, 100}

\* what a script may print, and the files it may leave in its directory
ScriptOutputs == {<<>>, <<"o", "k">>, <<"a", "b", "c", "\n">>}
ScriptFiles ==
    {{}, {<<S_out_txt>>}, {<<S_sub, S_out_txt>>}, {<<S_sub, S_script_py>>}}

\* attachments: <<fname, data>>
Data(tag) == [t |-> "bytes", id |-> tag]
ExtraFiles ==
    {<<>>, <<<<S_data_csv, Data("csv")>>>>, <<<<S_d_data_csv, Data("csv")>>>>,
     <<<<S_script_py, Data("py")>>>>, <<<<S_a_slash, Data("csv")>>>>,
     <<<<S_dotdot, Data("csv")>>>>, <<<<S_up_evil, Data("csv")>>>>}

\* import statements that name a module of the deny set
DeniedImportStmts ==
    {Import(<<m>>) : m \in {M_os, M_os_path, M_socket, M_subprocess_sub}}
    \cup {Import(<<M_numpy, M_os>>), Import(<<M_requests, M_os_path>>)}
    \cup {ImportFrom(m, l, <<<<"x">>>>) :
            m \in {M_os, M_os_path, M_socket, M_subprocess_sub}, l \in {0, 1}}

\* the sources a whole call is followed for
RunSources ==
    {Unparseable,
     Module(<<Expr(Call(Name("x"), <<Constant>>))>>),
     Module(<<Import(<<M_numpy_linalg>>)>>),
     Module(<<Import(<<M_requests>>)>>),
     Module(<<Expr(Name("eval"))>>),
     Module(<<Expr(Call(Attribute(Constant, "system"), <<>>))>>)}
    \cup {Module(<<s>>) : s \in DeniedImportStmts}
    \cup {Module(<<Expr(Constant), s>>) : s \in DeniedImportStmts}
    \cup {Module(<<FunctionDef("f", <<s>>)>>) : s \in DeniedImportStmts}

\* uuid.uuid4().hex[:8] and the UTC time of day that are drawn
Uids ==
    {<<"0", "a", "1", "b", "2", "c", "3", "d">>,
     <<"9", "f", "8", "e", "7", "d", "6", "c">>}
\* datetime.now(timezone.utc).strftime("%H%M%S") n seconds after 12:00:00
StampChars(n) ==
    <<"1", "2", "0", "0", DigitChars[(n \div 10) + 1], DigitChars[(n % 10) + 1]>>
Stamp(n) == Join(StampChars(n))

\* the values of the SANDBOX_BASE_DIR environment variable that are drawn:
\* /srv/runs and /srv/a.zip
BaseDirs ==
    {<<"/", "s", "r", "v", "/", "r", "u", "n", "s">>,
     <<"/", "s", "r", "v", "/", "a", ".", "z", "i", "p">>}

\* last second of the clock
MaxSecond == 1

Seconds == {Stamp(n) : n \in 0..MaxSecond}
TimesOfDay == {Stamp(0)}

\* ------------------------------------------------------------------------
\* Host files
\* ------------------------------------------------------------------------
Path(dir, rel) == <<dir, rel>>
ScriptPath(ws) == Path(ws, <<S_script_py>>)

\* the file at path p gets contents data; a new file gets mode newmode
WriteFile(fs, p, data, newmode) ==
    [q \in DOMAIN fs \cup {p} |->
        IF q = p
        THEN [data |-> data,
              mode |-> IF p \in DOMAIN fs THEN fs[p].mode ELSE newmode]
        ELSE fs[q]]

Chmod(fs, p, mode) == [fs EXCEPT ![p].mode = mode]

\* a faulty base name that keeps the directory part
BasenameWhole(s) == s

\* os.path.basename on POSIX: what follows the last "/"
RECURSIVE Basename(_)
Basename(s) ==
    IF s = <<>> THEN <<>>
    ELSE LET first == SplitFirst(s, "/")
         IN  IF Len(first) = Len(s) THEN s
             ELSE Basename(SubSeq(s, Len(first) + 2, Len(s)))

NoResult    == [kind |-> "none"]
NoContainer == [state |-> "none"]
NoArtifacts == [artifact_list |-> {}, zip_path |-> "", copied_files |-> {}]

\* one call of subprocess.run (or of shutil.which) as the host sees it,
\* with the way the host answered it
Op(argv, timeout, answer) ==
    [argv |-> argv, timeout |-> timeout, answer |-> answer]

\* ------------------------------------------------------------------------
\* LocalCodeInterpreterTool._run, step by step
\* ------------------------------------------------------------------------
vars ==
    <<SANDBOX_BASE_DIR, RAW_ALLOWED_IMPORTS, MAX_STDOUT_CHARS, self, code, extra_files, pc,
      result, exception, ops, imageLocal, dirs, files, container, workspace,
      next_file, start_time, raw_output, execution_time, stdout_display,
      artifacts, outcome, runs, clock, verdicts, temp_dir>>

\* what the one call of _run that is followed step by step never touches
callers == <<runs, clock, verdicts, temp_dir>>

config  == <<SANDBOX_BASE_DIR, RAW_ALLOWED_IMPORTS, MAX_STDOUT_CHARS, self, code, extra_files>>
host    == <<imageLocal, dirs, files, container>>
locals  == <<workspace, next_file, start_time, raw_output, execution_time,
             stdout_display, artifacts, outcome>>

\* return value
Return(value) ==
    /\ pc' = "done"
    /\ result' = value

\* an exception leaves _run
Raise(e) ==
    /\ pc' = "raised"
    /\ exception' = e
    /\ UNCHANGED result

\* a faulty _run that builds no report and goes on after a CodeSafetyError
AfterValidationNoReturn(e) == pc' = "check_docker" /\ UNCHANGED result

\* lines 168-171: on a CodeSafetyError the rejection report is returned,
\* otherwise the call goes on to the engine check
AfterValidation(e) ==
    IF e # NoViolation
    THEN Return([kind |-> "rejected", error |-> e])
    ELSE pc' = "check_docker" /\ UNCHANGED result

RunValidate ==
    /\ pc = "validate"
    /\ AfterValidation(validate_code_ast(code))
    /\ UNCHANGED <<config, callers, host, locals, ops, exception>>

\* lines 81-94: what check_docker_available does and returns when the host
\* answers with `how`
DockerProbeOps(how) ==
    IF how = "not_on_path"
    THEN <<Op(<<"shutil.which", "docker">>, NoTimeout, "not_on_path")>>
    ELSE <<Op(<<"shutil.which", "docker">>, NoTimeout, "found"),
           Op(<<"docker", "version">>, VERSION_TIMEOUT, how)>>

\* a faulty check that does not look at the exit status of the probe
check_docker_availableAnyExit(how) == how \in {"exit_0", "exit_nonzero"}

check_docker_available(how) == how = "exit_0"

ProbeAnswers == {"not_on_path", "exit_0", "exit_nonzero", "timeout", "oserror"}

\* lines 173-179
AfterDockerCheck(available) ==
    IF ~ available
    THEN Return([kind |-> "docker_unavailable"])
    ELSE pc' = "images_query" /\ UNCHANGED result

RunCheckDocker ==
    /\ pc = "check_docker"
    /\ \E how \in ProbeAnswers :
          /\ ops' = ops \o DockerProbeOps(how)
          /\ AfterDockerCheck(check_docker_available(how))
    /\ UNCHANGED <<config, callers, host, locals, exception>>

\* lines 98-105: `docker images -q image`.  It lists the image when it
\* works and the image is there; it prints nothing when it works and the
\* image is absent, and also when the command itself fails (exit status
\* not 0, which the code does not look at); or launching it raises; or,
\* the call passing no timeout, the engine never answers and the call waits.
QueryAnswers ==
    (IF imageLocal THEN {"listed"} ELSE {"empty"})
        \cup {"failed", "raised", "never"}

\* result.stdout.strip() of the query
QueryStdoutEmpty(answer) == answer # "listed"

\* lines 105, 114-117 and 181-182 for the query's part of pull_docker_image
AfterImagesQuery(answer) ==
    IF answer = "never"
    THEN pc' = "blocked" /\ UNCHANGED result
    ELSE IF answer = "raised"
    THEN Return([kind |-> "pull_failed", image |-> self.docker_image])
    ELSE IF QueryStdoutEmpty(answer)
    THEN pc' = "pull" /\ UNCHANGED result
    ELSE pc' = "make_workspace" /\ UNCHANGED result

\* lines 98-103; `present` notes whether the image was in the local store
\* when the query ran
ImagesQueryOp(answer) ==
    [argv |-> <<"docker", "images", "-q", self.docker_image>>,
     timeout |-> NoTimeout, answer |-> answer, present |-> imageLocal]

RunImagesQuery ==
    /\ pc = "images_query"
    /\ \E answer \in QueryAnswers :
          /\ ops' = Append(ops, ImagesQueryOp(answer))
          /\ AfterImagesQuery(answer)
    /\ UNCHANGED <<config, callers, host, locals, exception>>

PullAnswers == {"exit_0", "exit_nonzero", "timeout", "raised"}

\* a faulty pull that does not look at the exit status of `docker pull`
PullSucceededAnyExit(answer) == answer \in {"exit_0", "exit_nonzero"}

\* lines 107-117: the value pull_docker_image returns after `docker pull`
PullSucceeded(answer) == answer = "exit_0"

\* a faulty _run that asks for the image again after a failed pull
AfterPullTriesAgain(ok) ==
    IF ~ ok
    THEN pc' = "images_query" /\ UNCHANGED result
    ELSE pc' = "make_workspace" /\ UNCHANGED result

\* lines 181-182
AfterPull(ok) ==
    IF ~ ok
    THEN Return([kind |-> "pull_failed", image |-> self.docker_image])
    ELSE pc' = "make_workspace" /\ UNCHANGED result

RunPull ==
    /\ pc = "pull"
    /\ \E answer \in PullAnswers :
          /\ ops' = Append(ops, Op(<<"docker", "pull", self.docker_image>>,
                                   PULL_TIMEOUT, answer))
          /\ AfterPull(PullSucceeded(answer))
          /\ imageLocal' = (imageLocal \/ answer = "exit_0")
    /\ UNCHANGED <<config, callers, dirs, files, container, locals, exception>>

\* lines 22-28: run_<stamp>_<uid> under SANDBOX_BASE_DIR
WorkspaceName(time, uid) ==
    Join(SANDBOX_BASE_DIR) \o "/run_20261105T" \o time \o "Z_" \o Join(uid)

\* line 184; os.makedirs may raise OSError, which nothing catches
RunMakeWorkspace ==
    /\ pc = "make_workspace"
    /\ \/ \E time \in TimesOfDay, uid \in Uids :
             /\ workspace' = WorkspaceName(time, uid)
             /\ dirs' = dirs \cup {Join(SANDBOX_BASE_DIR), WorkspaceName(time, uid)}
             /\ pc' = "write_script"
             /\ UNCHANGED <<result, exception>>
       \/ /\ Raise("OSError")
          /\ UNCHANGED <<workspace, dirs>>
    /\ UNCHANGED <<config, callers, ops, imageLocal, files, container, next_file,
                   start_time, raw_output, execution_time, stdout_display,
                   artifacts, outcome>>

\* lines 31-33 (called at line 185): open(script_path, "w") and write
RunWriteScript ==
    /\ pc = "write_script"
    /\ \/ /\ files' = WriteFile(files, ScriptPath(workspace), code, MODE_0644)
          /\ pc' = "chmod_script"
          /\ UNCHANGED <<result, exception>>
       \/ /\ Raise("OSError")
          /\ UNCHANGED files
    /\ UNCHANGED <<config, callers, ops, imageLocal, dirs, container, locals>>

\* line 34
RunChmodScript ==
    /\ pc = "chmod_script"
    /\ files' = Chmod(files, ScriptPath(workspace), MODE_0600)
    /\ pc' = "extra_files"
    /\ UNCHANGED <<config, callers, ops, imageLocal, dirs, container, locals, result,
                   exception>>

\* line 189: os.path.join(workspace, os.path.basename(fname)); joining the
\* empty base name gives the workspace directory itself
SafeFname(ws, fname) ==
    IF Basename(fname) = <<>> THEN Path(ws, <<>>)
    ELSE Path(ws, <<Basename(fname)>>)

\* the path names a directory: the workspace itself (empty base name), or
\* its "." or ".." entry
IsDirectoryPath(p) ==
    IF p[2] = <<>> THEN TRUE ELSE p[2][1] \in {<<".">>, <<".", ".">>}

\* lines 187-191: open(safe_fname, "wb") and write, for the next attachment;
\* opening a directory raises IsADirectoryError
RunWriteExtraFile ==
    /\ pc = "extra_files"
    /\ next_file <= Len(extra_files)
    /\ LET fname == extra_files[next_file][1]
           data  == extra_files[next_file][2]
           p     == SafeFname(workspace, fname)
       IN  \/ /\ ~ IsDirectoryPath(p)
              /\ files' = WriteFile(files, p, data, MODE_0644)
              /\ pc' = "chmod_extra"
              /\ UNCHANGED <<result, exception>>
           \/ /\ IsDirectoryPath(p)
              /\ Raise("IsADirectoryError")
              /\ UNCHANGED files
           \/ /\ ~ IsDirectoryPath(p)
              /\ Raise("OSError")
              /\ UNCHANGED files
    /\ UNCHANGED <<config, callers, ops, imageLocal, dirs, container, locals>>

\* line 192
RunChmodExtraFile ==
    /\ pc = "chmod_extra"
    /\ files' = Chmod(files, SafeFname(workspace, extra_files[next_file][1]),
                      MODE_0600)
    /\ next_file' = next_file + 1
    /\ pc' = "extra_files"
    /\ UNCHANGED <<config, callers, ops, imageLocal, dirs, container, workspace,
                   start_time, raw_output, execution_time, stdout_display,
                   artifacts, outcome, result, exception>>

\* lines 187-188: the loop is over (or extra_files is empty)
RunExtraFilesDone ==
    /\ pc = "extra_files"
    /\ next_file > Len(extra_files)
    /\ pc' = "docker_run"
    /\ UNCHANGED <<config, callers, ops, host, locals, result, exception>>

\* a faulty command line that leaves the container on the default network
docker_cmdNetworked(tool, ws) ==
    <<"docker", "run", "--rm",
      "--memory", tool.memory,
      "--cpus", tool.cpus,
      "--pids-limit", "128",
      "--security-opt", "no-new-privileges",
      "--read-only",
      "-v", ws \o ":/workspace:rw",
      "--workdir", "/workspace",
      tool.docker_image,
      "python", "-u", "script.py">>

\* lines 194-206
docker_cmd(tool, ws) ==
    <<"docker", "run", "--rm",
      "--network", "none",
      "--memory", tool.memory,
      "--cpus", tool.cpus,
      "--pids-limit", "128",
      "--security-opt", "no-new-privileges",
      "--read-only",
      "-v", ws \o ":/workspace:rw",
      "--workdir", "/workspace",
      tool.docker_image,
      "python", "-u", "script.py">>

\* the files a script leaves in the bind-mounted workspace
RECURSIVE WriteAll(_, _, _)
WriteAll(fs, ws, rels) ==
    IF rels = {} THEN fs
    ELSE LET r == CHOOSE x \in rels : TRUE
         IN  WriteAll(WriteFile(fs, Path(ws, r), Data("generated"), MODE_0644),
                      ws, rels \ {r})

\* lines 208-218 and 224-229: subprocess.run(docker_cmd, timeout=self.timeout)
\* is called.  Launching the docker client raises, or the engine refuses
\* the run and the client exits at once with its error text, or a container
\* is started whose script would run for `duration` seconds and which
\* executes the script.py found in the mounted workspace.
RunOp(answer) == Op(docker_cmd(self, workspace), self.timeout, answer)

RunDockerRun ==
    /\ pc = "docker_run"
    /\ start_time' = TRUE
    /\ \/ /\ ops' = Append(ops, RunOp("not_found"))
          /\ raw_output' = NotFoundMsg
          /\ execution_time' = 0
          /\ outcome' = "not_found"
          /\ pc' = "truncate"
          /\ UNCHANGED container
       \/ /\ ops' = Append(ops, RunOp("raised"))
          /\ raw_output' = ExecErrorMsg
          /\ execution_time' = 0
          /\ outcome' = "error"
          /\ pc' = "truncate"
          /\ UNCHANGED container
       \/ /\ ops' = Append(ops, RunOp("refused"))
          /\ raw_output' = EngineRefusedMsg
          /\ execution_time' = 0
          /\ outcome' = "completed"
          /\ pc' = "truncate"
          /\ UNCHANGED container
       \/ \E duration \in 0..MaxDuration :
             /\ ops' = Append(ops, RunOp("started"))
             /\ container' = [state |-> "running",
                              argv |-> docker_cmd(self, workspace),
                              duration |-> duration,
                              script |-> files[ScriptPath(workspace)].data]
             /\ pc' = "waiting"
             /\ UNCHANGED <<raw_output, execution_time, outcome>>
    /\ UNCHANGED <<config, callers, imageLocal, dirs, files, workspace, next_file,
                   stdout_display, artifacts, result, exception>>

\* the exit statuses of the script that are drawn
ExitCodes == {0, 1}

\* lines 208-216: the CompletedProcess that subprocess.run returns when the
\* client ends within the timeout
Exited(c, rc, out) ==
    [state |-> "exited", argv |-> c.argv, duration |-> c.duration,
     script |-> c.script, returncode |-> rc, stdout |-> out]

\* a faulty client call that takes an error branch on a non-zero status
RunContainerExitsChecked ==
    /\ pc = "waiting"
    /\ container.duration <= self.timeout
    /\ \E rc \in ExitCodes, out \in ScriptOutputs, made \in ScriptFiles :
          /\ container' = Exited(container, rc, out)
          /\ raw_output' = IF rc = 0 THEN out ELSE ExecErrorMsg
          /\ outcome' = IF rc = 0 THEN "completed" ELSE "error"
          /\ files' = WriteAll(files, workspace, made)
    /\ execution_time' = container.duration
    /\ pc' = "truncate"
    /\ UNCHANGED <<config, callers, ops, imageLocal, dirs, workspace, next_file,
                   start_time, stdout_display, artifacts, result, exception>>

\* lines 208-220: the container exits within the timeout with some status;
\* the client returns what the script printed, and the status is not read
RunContainerExits ==
    /\ pc = "waiting"
    /\ container.duration <= self.timeout
    /\ \E rc \in ExitCodes, out \in ScriptOutputs, made \in ScriptFiles :
          /\ container' = Exited(container, rc, out)
          /\ raw_output' = out
          /\ files' = WriteAll(files, workspace, made)
    /\ execution_time' = container.duration
    /\ outcome' = "completed"
    /\ pc' = "truncate"
    /\ UNCHANGED <<config, callers, ops, imageLocal, dirs, workspace, next_file,
                   start_time, stdout_display, artifacts, result, exception>>

\* what subprocess.run does to the container when the timeout expires: it
\* kills the docker client process it started and nothing else
KillOnTimeout(c) == c

\* a faulty timeout branch that reports the measured time of the script
RunTimeoutExpiredMeasured ==
    /\ pc = "waiting"
    /\ container.duration >= self.timeout
    /\ container' = KillOnTimeout(container)
    /\ raw_output' = TimeoutMsg
    /\ execution_time' = container.duration
    /\ outcome' = "timeout"
    /\ pc' = "truncate"
    /\ UNCHANGED <<config, callers, ops, imageLocal, dirs, files, workspace, next_file,
                   start_time, stdout_display, artifacts, result, exception>>

\* lines 221-223: TimeoutExpired
RunTimeoutExpired ==
    /\ pc = "waiting"
    /\ container.duration >= self.timeout
    /\ container' = KillOnTimeout(container)
    /\ raw_output' = TimeoutMsg
    /\ execution_time' = self.timeout
    /\ outcome' = "timeout"
    /\ pc' = "truncate"
    /\ UNCHANGED <<config, callers, ops, imageLocal, dirs, files, workspace, next_file,
                   start_time, stdout_display, artifacts, result, exception>>

\* the host: a container whose client is gone runs on until its script
\* ends, writing into the workspace that is still mounted
ContainerEndsLater ==
    /\ container.state = "running"
    /\ pc # "waiting"
    /\ container' = [container EXCEPT !.state = "exited"]
    /\ \E made \in ScriptFiles : files' = WriteAll(files, workspace, made)
    /\ UNCHANGED <<config, callers, ops, imageLocal, dirs, locals, pc, result,
                   exception>>

\* a faulty truncation whose marker states the length of the prefix it kept
TruncateStatesPrefix(raw, cap) ==
    IF Len(raw) > cap
    THEN SubSeq(raw, 1, cap) \o MarkerHead \o Str(cap) \o MarkerTail
    ELSE raw

\* a faulty truncation that puts the marker after the whole raw text
TruncateKeepsAll(raw, cap) ==
    IF Len(raw) > cap
    THEN raw \o MarkerHead \o Str(Len(raw)) \o MarkerTail
    ELSE raw

\* lines 231-235
Truncate(raw, cap) ==
    IF Len(raw) > cap
    THEN SubSeq(raw, 1, cap) \o MarkerHead \o Str(Len(raw)) \o MarkerTail
    ELSE raw

RunTruncate ==
    /\ pc = "truncate"
    /\ stdout_display' = Truncate(raw_output, MAX_STDOUT_CHARS)
    /\ pc' = "collect"
    /\ UNCHANGED <<config, callers, ops, host, workspace, next_file, start_time,
                   raw_output, execution_time, artifacts, outcome, result,
                   exception>>

\* ------------------------------------------------------------------------
\* collect_artifacts and the report
\* ------------------------------------------------------------------------
\* os.walk(workspace): the relative paths of the files under ws
WorkspaceFiles(fs, ws) == {p[2] : p \in {q \in DOMAIN fs : q[1] = ws /\ q[2] # <<>>}}

\* line 24: the names make_run_workspace can give, as characters
RunNames ==
    {<<"r", "u", "n", "_", "2", "0", "2", "6", "1", "1", "0", "5", "T">>
         \o StampChars(n) \o <<"Z", "_">> \o uid :
        n \in 0..MaxSecond, uid \in Uids}
RunNameStrings == [b \in RunNames |-> Join(b)]

\* os.path.basename(workspace)
WorkspaceBasename(ws) ==
    LET base == Join(SANDBOX_BASE_DIR) \o "/"
    IN  CHOOSE b \in RunNames : ws = base \o RunNameStrings[b]

\* lines 40-41
OutputSubdir(time) == SANDBOX_OUTPUT_DIR \o "/run_20261105_" \o time

\* lines 54-56: the directories made for the copies of nested files
CopyDirs(outdir, rels) ==
    {outdir \o "/" \o Join(r[1]) : r \in {x \in rels : Len(x) = 2}}

\* lines 45-48: the files copy_artifacts_to_output copies
FilesToCopy(rels) == {r \in rels : r[Len(r)] # S_script_py}

\* a faulty copy that moves each file out of the workspace
CopyAllMoves(fs, ws, outdir, rels) ==
    [q \in (DOMAIN fs \ {Path(ws, r) : r \in rels})
               \cup {Path(outdir, r) : r \in rels} |->
        IF q[1] = outdir /\ q[2] \in rels THEN fs[Path(ws, q[2])] ELSE fs[q]]

\* lines 50-59: shutil.copy2 of each of them (contents and mode)
RECURSIVE CopyAll(_, _, _, _)
CopyAll(fs, ws, outdir, rels) ==
    IF rels = {} THEN fs
    ELSE LET r == CHOOSE x \in rels : TRUE
             copied == [q \in DOMAIN fs \cup {Path(outdir, r)} |->
                           IF q = Path(outdir, r) THEN fs[Path(ws, r)]
                           ELSE fs[q]]
         IN  CopyAll(copied, ws, outdir, rels \ {r})

\* lines 75-76
ZipPath(ws) ==
    SANDBOX_BASE_DIR
        \o <<"/", "a", "r", "t", "i", "f", "a", "c", "t", "s", "_">>
        \o WorkspaceBasename(ws) \o <<".", "z", "i", "p">>

\* line 77: zip_path.replace(".zip", "") is the base name make_archive is
\* given, and make_archive appends ".zip" to it
ArchiveBase(zip_path) == Replace(zip_path, <<".", "z", "i", "p">>, <<>>)
ArchivePath(zip_path) == Join(ArchiveBase(zip_path)) \o ".zip"

\* line 77: the archive holds every file of the workspace
Archive(fs, ws) ==
    [t |-> "zip",
     members |-> {<<r, fs[Path(ws, r)].data>> : r \in WorkspaceFiles(fs, ws)}]

\* line 77: make_archive makes the directory of the base name if it is
\* not there
ArchiveDirs(ws, rels) ==
    IF rels = {} THEN {} ELSE {Join(Dirname(ArchiveBase(ZipPath(ws))))}

\* line 237 (lines 63-79 and 37-61); an OSError or shutil.Error of a copy
\* or of the archiving is not caught
RunCollectArtifacts ==
    /\ pc = "collect"
    /\ \/ /\ Raise("OSError")
          /\ UNCHANGED <<dirs, files, artifacts>>
       \/ \E time \in TimesOfDay :
             LET rels   == WorkspaceFiles(files, workspace)
                 outdir == OutputSubdir(time)
                 copied == CopyAll(files, workspace, outdir, FilesToCopy(rels))
                 zip    == IF rels # {} THEN Join(ZipPath(workspace)) ELSE ""
             IN  /\ dirs' = dirs \cup {SANDBOX_OUTPUT_DIR, outdir}
                               \cup CopyDirs(outdir, FilesToCopy(rels))
                               \cup ArchiveDirs(workspace, rels)
                 /\ files' = IF rels # {}
                             THEN WriteFile(copied,
                                            Path(ArchivePath(ZipPath(workspace)),
                                                 <<>>),
                                            Archive(files, workspace), MODE_0644)
                             ELSE copied
                 /\ artifacts' =
                        [artifact_list |-> rels,
                         zip_path |-> zip,
                         copied_files |-> {Path(outdir, r) : r \in FilesToCopy(rels)}]
                 /\ pc' = "report"
                 /\ UNCHANGED <<result, exception>>
    /\ UNCHANGED <<config, callers, ops, imageLocal, container, workspace, next_file,
                   start_time, raw_output, execution_time, stdout_display,
                   outcome>>

\* lines 239-277: the execution summary
Summary ==
    [kind |-> "summary",
     docker_image |-> self.docker_image,
     timeout |-> self.timeout,
     memory |-> self.memory,
     cpus |-> self.cpus,
     execution_time |-> execution_time,
     stdout_display |-> stdout_display,
     workspace |-> workspace,
     artifact_list |-> artifacts.artifact_list,
     zip_path |-> artifacts.zip_path,
     copied_files |-> artifacts.copied_files]

RunReport ==
    /\ pc = "report"
    /\ Return(Summary)
    /\ UNCHANGED <<config, callers, ops, host, locals, exception>>

\* ------------------------------------------------------------------------
\* Specifications
\* ------------------------------------------------------------------------
\* nothing has been done yet: no result, no operation, an empty host
Fresh ==
    /\ result = NoResult
    /\ exception = ""
    /\ ops = <<>>
    /\ dirs = {}
    /\ files = <<>>
    /\ container = NoContainer
    /\ workspace = ""
    /\ next_file = 1
    /\ start_time = FALSE
    /\ raw_output = <<>>
    /\ execution_time = 0
    /\ stdout_display = <<>>
    /\ artifacts = NoArtifacts
    /\ outcome = "none"

\* line 167: the call begins
Idle ==
    /\ pc = "validate"
    /\ Fresh

\* no other call is under way
NoCallers ==
    /\ runs = <<>>
    /\ clock = 0
    /\ verdicts = <<>>
    /\ temp_dir = ""

\* one call of _run on a host
Init ==
    /\ SANDBOX_BASE_DIR \in BaseDirs
    /\ RAW_ALLOWED_IMPORTS \in {Raw_empty, Raw_numpy_pandas}
    /\ MAX_STDOUT_CHARS \in StdoutCaps
    /\ self \in Tools
    /\ code \in RunSources
    /\ extra_files \in ExtraFiles
    /\ imageLocal \in BOOLEAN
    /\ Idle
    /\ NoCallers

Next ==
    \/ RunValidate
    \/ RunCheckDocker
    \/ RunImagesQuery
    \/ RunPull
    \/ RunMakeWorkspace
    \/ RunWriteScript
    \/ RunChmodScript
    \/ RunWriteExtraFile
    \/ RunChmodExtraFile
    \/ RunExtraFilesDone
    \/ RunDockerRun
    \/ RunContainerExits
    \/ RunTimeoutExpired
    \/ ContainerEndsLater
    \/ RunTruncate
    \/ RunCollectArtifacts
    \/ RunReport

Spec == Init /\ [][Next]_vars

\* one call of _run that is always carried on: the interpreter executes
\* the next statement, an engine command with a timeout answers or is cut
\* off, and a started container ends
InitL ==
    /\ SANDBOX_BASE_DIR \in BaseDirs
    /\ RAW_ALLOWED_IMPORTS = Raw_empty
    /\ MAX_STDOUT_CHARS = 100
    /\ self \in {t \in Tools : t.memory = "1g"}
    /\ code \in {Unparseable, Module(<<Expr(Call(Name("x"), <<Constant>>))>>)}
    /\ extra_files \in ExtraFiles
    /\ imageLocal \in BOOLEAN
    /\ Idle
    /\ NoCallers

SpecL == InitL /\ [][Next]_vars /\ WF_vars(Next)

\* the validation step of _run on every drawn source under every drawn
\* value of SANDBOX_ALLOWED_IMPORTS
InitV ==
    /\ SANDBOX_BASE_DIR \in BaseDirs
    /\ RAW_ALLOWED_IMPORTS \in RawAllowedValues
    /\ MAX_STDOUT_CHARS = 100
    /\ self \in {t \in Tools : t.memory = "1g"}
    /\ code \in Sources
    /\ extra_files = <<>>
    /\ imageLocal = TRUE
    /\ Idle
    /\ NoCallers

\* number of direct calls of validate_code_ast
MaxCalls == 2

\* a faulty validator that drops the allow list once it has run
ValidateEffectDropsPolicy ==
    /\ RAW_ALLOWED_IMPORTS' = Raw_empty
    /\ UNCHANGED <<SANDBOX_BASE_DIR, MAX_STDOUT_CHARS, self, code, extra_files,
                   pc, result, exception, ops, host, locals, runs, clock,
                   temp_dir>>

\* lines 36-70: validate_code_ast assigns to no global and to no argument,
\* and calls nothing but ast.parse, ast.walk and fnmatch
ValidateEffect ==
    UNCHANGED <<config, pc, result, exception, ops, host, locals, runs, clock,
                temp_dir>>

\* a caller validates the source directly, before or after _run did
CallValidate ==
    /\ Len(verdicts) < MaxCalls
    /\ verdicts' = Append(verdicts, validate_code_ast(code))
    /\ ValidateEffect

NextV == RunValidate \/ CallValidate

SpecV == InitV /\ [][NextV]_vars

\* ------------------------------------------------------------------------
\* Calls of _run issued concurrently by one process (threads of a server):
\* each is followed from line 184 on, through the steps that touch the
\* host's directories
\* ------------------------------------------------------------------------
\* number of concurrent calls
MaxRuns == 2

RunIds == 1..MaxRuns

\* the sources of the concurrent calls (validation accepts them)
AcceptedSources ==
    {Module(<<Expr(Call(Name("x"), <<Constant>>))>>),
     Module(<<Assign(Name("x"), Constant)>>)}

\* a call of _run that is about to execute line 184
NewRun(src) ==
    [pc |-> "make_workspace", code |-> src, workspace |-> "",
     executed |-> Unparseable, outdir |-> "", copied_files |-> {}]

\* what the script of call r writes into the files it creates
RunTag(r) == "run" \o DigitChars[r + 1]

\* lines 22-28, called at line 184: the stamp is the clock's second, the
\* suffix is random, and os.makedirs(exist_ok=True) accepts a directory
\* that is already there
ConcurrentMakeWorkspace(r) ==
    /\ runs[r].pc = "make_workspace"
    /\ \E uid \in Uids :
          LET ws == WorkspaceName(Stamp(clock), uid)
          IN  /\ dirs' = dirs \cup {Join(SANDBOX_BASE_DIR), ws}
              /\ runs' = [runs EXCEPT ![r].workspace = ws,
                                       ![r].pc = "write_script"]
    /\ UNCHANGED <<config, pc, result, exception, ops, imageLocal, files,
                   container, locals, clock, verdicts, temp_dir>>

\* lines 30-35, called at line 185: open(script_path, "w") truncates what
\* is there
ConcurrentWriteScript(r) ==
    /\ runs[r].pc = "write_script"
    /\ LET p == ScriptPath(runs[r].workspace)
       IN  files' = Chmod(WriteFile(files, p, runs[r].code, MODE_0644),
                          p, MODE_0600)
    /\ runs' = [runs EXCEPT ![r].pc = "docker_run"]
    /\ UNCHANGED <<config, pc, result, exception, ops, imageLocal, dirs,
                   container, locals, clock, verdicts, temp_dir>>

\* lines 194-220: the container of call r executes the script.py that is
\* in the mounted workspace at that moment, and the script may write
\* out.txt into its working directory
ConcurrentScriptRuns(r) ==
    /\ runs[r].pc = "docker_run"
    /\ \E writes \in BOOLEAN :
          files' = IF writes
                   THEN WriteFile(files, Path(runs[r].workspace, <<S_out_txt>>),
                                  Data(RunTag(r)), MODE_0644)
                   ELSE files
    /\ runs' = [runs EXCEPT
                  ![r].executed = files[ScriptPath(runs[r].workspace)].data,
                  ![r].pc = "collect"]
    /\ UNCHANGED <<config, pc, result, exception, ops, imageLocal, dirs,
                   container, locals, clock, verdicts, temp_dir>>

\* line 237 (lines 63-79 and 37-61): the output subdirectory is named by
\* the clock's second alone
ConcurrentCollect(r) ==
    /\ runs[r].pc = "collect"
    /\ LET ws     == runs[r].workspace
           rels   == WorkspaceFiles(files, ws)
           outdir == OutputSubdir(Stamp(clock))
           copied == CopyAll(files, ws, outdir, FilesToCopy(rels))
       IN  /\ dirs' = dirs \cup {SANDBOX_OUTPUT_DIR, outdir}
                         \cup CopyDirs(outdir, FilesToCopy(rels))
                         \cup ArchiveDirs(ws, rels)
           /\ files' = IF rels # {}
                       THEN WriteFile(copied,
                                      Path(ArchivePath(ZipPath(ws)), <<>>),
                                      Archive(files, ws), MODE_0644)
                       ELSE copied
           /\ runs' = [runs EXCEPT
                         ![r].outdir = outdir,
                         ![r].copied_files =
                             {Path(outdir, x) : x \in FilesToCopy(rels)},
                         ![r].pc = "done"]
    /\ UNCHANGED <<config, pc, result, exception, ops, imageLocal,
                   container, locals, clock, verdicts, temp_dir>>

\* the host's clock reaches the next second
Tick ==
    /\ clock < MaxSecond
    /\ clock' = clock + 1
    /\ UNCHANGED <<config, pc, result, exception, ops, host, locals, runs,
                   verdicts, temp_dir>>

InitC ==
    /\ SANDBOX_BASE_DIR \in BaseDirs
    /\ RAW_ALLOWED_IMPORTS = Raw_empty
    /\ MAX_STDOUT_CHARS = 100
    /\ self \in {t \in Tools : t.memory = "1g"}
    /\ code = Unparseable
    /\ extra_files = <<>>
    /\ imageLocal = TRUE
    /\ Idle
    /\ runs \in [RunIds -> {NewRun(src) : src \in AcceptedSources}]
    /\ clock = 0
    /\ verdicts = <<>>
    /\ temp_dir = ""

NextC ==
    \/ \E r \in RunIds : ConcurrentMakeWorkspace(r)
    \/ \E r \in RunIds : ConcurrentWriteScript(r)
    \/ \E r \in RunIds : ConcurrentScriptRuns(r)
    \/ \E r \in RunIds : ConcurrentCollect(r)
    \/ Tick

SpecC == InitC /\ [][NextC]_vars

\* ------------------------------------------------------------------------
\* LocalCodeInterpreterTool.__init__ and _build_custom_image
\* ------------------------------------------------------------------------
\* line 156: the tag of the custom image
CUSTOM_IMAGE == "python-sandbox:custom"

S_Dockerfile == <<"D", "o", "c", "k", "e", "r", "f", "i", "l", "e">>

\* tempfile.mkdtemp(): the directories that are drawn
TempDirs == {"/tmp/tmpa1b2c3d4", "/tmp/tmpe5f6a7b8"}

\* lines 123-128: the arguments of the constructor that are drawn
Constructions ==
    {[docker_image |-> t.docker_image, timeout |-> t.timeout,
      memory |-> t.memory, cpus |-> t.cpus, use_custom_image |-> u] :
        t \in Tools, u \in BOOLEAN}

\* what the construction never touches
call == <<SANDBOX_BASE_DIR, RAW_ALLOWED_IMPORTS, MAX_STDOUT_CHARS, code,
          extra_files, result, imageLocal, container, locals, runs, clock,
          verdicts>>

\* lines 123-130
Construct ==
    /\ pc = "init"
    /\ pc' = IF self.use_custom_image THEN "mkdtemp" ELSE "constructed"
    /\ UNCHANGED <<call, self, exception, ops, dirs, files, temp_dir>>

\* line 147
BuildMkdtemp ==
    /\ pc = "mkdtemp"
    /\ \/ /\ pc' = "raised"
          /\ exception' = "OSError"
          /\ UNCHANGED <<temp_dir, dirs>>
       \/ \E d \in TempDirs :
             /\ temp_dir' = d
             /\ dirs' = dirs \cup {d}
             /\ pc' = "write_dockerfile"
             /\ UNCHANGED exception
    /\ UNCHANGED <<call, self, ops, files>>

\* lines 148-151, outside the try statement
BuildWriteDockerfile ==
    /\ pc = "write_dockerfile"
    /\ \/ /\ pc' = "raised"
          /\ exception' = "OSError"
          /\ UNCHANGED files
       \/ /\ files' = WriteFile(files, Path(temp_dir, <<S_Dockerfile>>),
                                Data("Dockerfile"), MODE_0644)
          /\ pc' = "docker_build"
          /\ UNCHANGED exception
    /\ UNCHANGED <<call, self, ops, dirs, temp_dir>>

\* lines 155-160: `docker build` ends with status 0 or with another status
\* (check=True raises CalledProcessError), or the docker binary cannot be
\* launched (FileNotFoundError), or, the call passing no timeout, the
\* engine never answers
BuildAnswers == {"exit_0", "exit_nonzero", "not_found", "never"}

BuildOp(answer) ==
    Op(<<"docker", "build", "-t", CUSTOM_IMAGE, temp_dir>>, NoTimeout, answer)

\* line 163: the only exception the try statement catches
CaughtByBuild(answer) == answer = "exit_nonzero"

\* lines 153-163; an exception that is not caught is pending while the
\* finally clause runs
BuildDockerBuild ==
    /\ pc = "docker_build"
    /\ \E answer \in BuildAnswers :
          /\ ops' = Append(ops, BuildOp(answer))
          /\ IF answer = "never"
             THEN pc' = "blocked" /\ UNCHANGED <<self, exception>>
             ELSE /\ pc' = "rmtree"
                  /\ self' = IF answer = "exit_0"
                             THEN [self EXCEPT !.docker_image = CUSTOM_IMAGE]
                             ELSE self
                  /\ exception' = IF answer = "exit_0" \/ CaughtByBuild(answer)
                                  THEN ""
                                  ELSE "FileNotFoundError"
    /\ UNCHANGED <<call, dirs, files, temp_dir>>

\* lines 164-165: shutil.rmtree(temp_dir), then the pending exception, if
\* any, leaves __init__
BuildRmtree ==
    /\ pc = "rmtree"
    /\ dirs' = dirs \ {temp_dir}
    /\ files' = [q \in {x \in DOMAIN files : x[1] # temp_dir} |-> files[q]]
    /\ pc' = IF exception = "" THEN "constructed" ELSE "raised"
    /\ UNCHANGED <<call, self, exception, ops, temp_dir>>

\* the construction of one tool
InitB ==
    /\ SANDBOX_BASE_DIR \in BaseDirs
    /\ RAW_ALLOWED_IMPORTS = Raw_empty
    /\ MAX_STDOUT_CHARS \in StdoutCaps
    /\ self \in Constructions
    /\ code = Unparseable
    /\ extra_files = <<>>
    /\ imageLocal \in BOOLEAN
    /\ pc = "init"
    /\ Fresh
    /\ NoCallers

NextB ==
    \/ Construct
    \/ BuildMkdtemp
    \/ BuildWriteDockerfile
    \/ BuildDockerBuild
    \/ BuildRmtree

SpecB == InitB /\ [][NextB]_vars

\* ------------------------------------------------------------------------
\* Properties
\* ------------------------------------------------------------------------
\* every node of a syntax tree
RECURSIVE Nodes(_)
Nodes(n) == {n} \cup UNION {Nodes(n.ch[i]) : i \in DOMAIN n.ch}

\* the dotted name m is the module r or lies inside the package r
IsRootedIn(m, r) ==
    \/ m = r
    \/ Len(m) > Len(r) /\ SubSeq(m, 1, Len(r) + 1) = r \o <<".">>

DenySet ==
    {M_os, M_sys, M_subprocess, M_socket, M_shutil, M_pathlib, M_ctypes,
     M_multiprocessing, M_threading, M_selectors, M_resource, M_psutil}

\* the source holds `import M`, `import M.sub`, `from M import` or
\* `from M.sub import` for a module M of the deny set
HasForbiddenImport(src) ==
    \E n \in Nodes(src) :
        \/ n.t = "Import"
           /\ \E i \in DOMAIN n.ch, r \in DenySet : IsRootedIn(n.ch[i].mod, r)
        \/ n.t = "ImportFrom"
           /\ \E r \in DenySet : IsRootedIn(n.mod, r)

\* nothing of a run exists on the host: no engine operation was issued, no
\* directory or file was created, no container was started
NothingAttempted ==
    /\ ops = <<>>
    /\ dirs = {}
    /\ files = <<>>
    /\ container = NoContainer
    /\ workspace = ""

Rejected == pc = "done" /\ result.kind = "rejected"

\* C1: a source that imports a module of the deny set (import M, import
\* M.sub, from M import, from M.sub import) is rejected by validation, and
\* _run returns the rejection report with no workspace created and no
\* container started.
C1_ForbiddenImportRejected ==
    (pc # "validate" /\ HasForbiddenImport(code))
        => /\ Rejected
           /\ result.error.kind \in
                 {"Forbidden import detected", "Forbidden import from detected",
                  "Import not allowed by policy"}
           /\ NothingAttempted

C1_Witness ==
    /\ Rejected
    /\ code = Module(<<FunctionDef("f",
                  <<ImportFrom(M_subprocess_sub, 0, <<<<"x">>>>)>>)>>)
    /\ result.error.kind = "Forbidden import from detected"

\* the source holds a Name node whose id is one of the forbidden builtins
HasForbiddenName(src) ==
    \E n \in Nodes(src) :
        /\ n.t = "Name"
        /\ n.id \in {"exec", "eval", "compile", "__import__", "open", "input"}

\* C2: a source in which a forbidden builtin name occurs as a bare name
\* anywhere in the tree is rejected, called or not.
C2_ForbiddenNameRejected ==
    (pc # "validate" /\ HasForbiddenName(code)) => Rejected

C2_Witness ==
    /\ Rejected
    /\ code = Module(<<Assign(Name("x"), Name("eval"))>>)
    /\ result.error = Violation("Forbidden builtin usage", "eval", <<>>)

\* the source holds a call whose callee is an attribute access with a
\* forbidden attribute name
HasForbiddenAttrCall(src) ==
    \E n \in Nodes(src) :
        /\ n.t = "Call"
        /\ n.ch[1].t = "Attribute"
        /\ n.ch[1].id \in
              {"system", "popen", "Popen", "run", "call", "check_call",
               "check_output", "remove", "unlink", "rmdir", "walk", "fork",
               "spawn", "execv", "execve", "kill", "terminate", "connect",
               "send", "recv"}

\* C3: a source with a call <expr>.attr(...) whose attr is a forbidden
\* attribute name is rejected, whatever kind of expression the receiver is.
C3_ForbiddenAttrCallRejected ==
    (pc # "validate" /\ HasForbiddenAttrCall(code)) => Rejected

C3_Witness ==
    /\ Rejected
    /\ code = Module(<<Expr(Call(Attribute(Subscript(Name("x"), Constant),
                                           "Popen"), <<>>))>>)
    /\ result.error.kind = "Forbidden attribute call detected"

\* a glob with at most one "*": the part before it and the part after it
\* must open and close the name, "?" standing for any one character
CharsMatch(s, p) ==
    /\ Len(s) = Len(p)
    /\ \A i \in DOMAIN p : p[i] = "?" \/ p[i] = s[i]

GlobMatches(name, glob) ==
    IF \E k \in DOMAIN glob : glob[k] = "*"
    THEN LET k    == CHOOSE j \in DOMAIN glob : glob[j] = "*"
             pre  == SubSeq(glob, 1, k - 1)
             post == SubSeq(glob, k + 1, Len(glob))
         IN  /\ Len(name) >= Len(pre) + Len(post)
             /\ CharsMatch(SubSeq(name, 1, Len(pre)), pre)
             /\ CharsMatch(SubSeq(name, Len(name) - Len(post) + 1, Len(name)),
                           post)
    ELSE CharsMatch(name, glob)

\* the root of a dotted name: its longest dot-free prefix that is the name
\* itself or is followed by a dot
RootName(m) ==
    CHOOSE r \in {SubSeq(m, 1, k) : k \in 0..Len(m)} :
        /\ \A i \in DOMAIN r : r[i] # "."
        /\ IsRootedIn(m, r)

SingleImport(m) == Module(<<Import(<<m>>)>>)

Accepted == pc = "check_docker" /\ result = NoResult

RejectedAs(kind) == Rejected /\ result.error.kind = kind

\* C4: `import M` is accepted iff the root of M is not in the deny set and
\* (the allow-glob list is empty or M or its root matches a glob); a denied
\* module is reported as a forbidden import even if a glob matches it, a
\* module that is not denied and matches no glob as not allowed by policy.
\* With the globs numpy* and pandas, import numpy.linalg is accepted and
\* import requests is rejected as not allowed by policy.
C4_ImportPolicy ==
    /\ \A m \in ModNames :
          (pc # "validate" /\ code = SingleImport(m)) =>
             LET globs   == ALLOWED_IMPORT_PATTERNS
                 denied  == \E r \in DenySet : IsRootedIn(m, r)
                 allowed == \/ globs = <<>>
                            \/ \E i \in DOMAIN globs :
                                  \/ GlobMatches(m, globs[i])
                                  \/ GlobMatches(RootName(m), globs[i])
             IN  /\ Accepted <=> (~ denied /\ allowed)
                 /\ denied => RejectedAs("Forbidden import detected")
                 /\ (~ denied /\ ~ allowed)
                       => RejectedAs("Import not allowed by policy")
    /\ (pc # "validate" /\ RAW_ALLOWED_IMPORTS = Raw_numpy_pandas) =>
          /\ ALLOWED_IMPORT_PATTERNS = <<P_numpy_star, P_pandas>>
          /\ code = SingleImport(M_numpy_linalg) => Accepted
          /\ code = SingleImport(M_pandas) => Accepted
          /\ code = SingleImport(M_requests)
                => RejectedAs("Import not allowed by policy")
          /\ code = SingleImport(M_os)
                => RejectedAs("Forbidden import detected")

\* a denied module that an allow glob matches, reported as forbidden
C4_Witness ==
    /\ RAW_ALLOWED_IMPORTS = Raw_os_star
    /\ code = SingleImport(M_os_path)
    /\ RejectedAs("Forbidden import detected")

\* C5: when validation fails (the source does not parse, or a rule is
\* broken) _run returns a report that carries the reason, and has made no
\* engine probe, pulled no image, created no directory or file and started
\* no container.
C5_RejectedNeverExecuted ==
    (pc # "validate" /\ validate_code_ast(code) # NoViolation)
        => /\ Rejected
           /\ result.error = validate_code_ast(code)
           /\ result.error.kind # "none"
           /\ NothingAttempted

C5_Witness ==
    /\ Rejected
    /\ code = Unparseable
    /\ result.error.kind = "AST parsing error"
    /\ NothingAttempted

\* a command line of `docker run`
IsRun(argv) == Len(argv) >= 2 /\ argv[1] = "docker" /\ argv[2] = "run"

HasWord(argv, w) == \E i \in DOMAIN argv : argv[i] = w

HasOpt(argv, opt, val) ==
    \E i \in DOMAIN argv : i < Len(argv) /\ argv[i] = opt /\ argv[i + 1] = val

\* the words a `docker run` line may hold besides the configured values
FixedWords ==
    {"docker", "run", "--rm", "--network", "none", "--memory", "--cpus",
     "--pids-limit", "128", "--security-opt", "no-new-privileges",
     "--read-only", "-v", "--workdir", "/workspace", "python", "-u",
     "script.py"}

Confined(argv, tool, ws) ==
    /\ IsRun(argv)
    /\ HasWord(argv, "--rm")
    /\ HasOpt(argv, "--network", "none")
    /\ HasOpt(argv, "--memory", tool.memory)
    /\ HasOpt(argv, "--cpus", tool.cpus)
    /\ HasOpt(argv, "--pids-limit", "128")
    /\ HasOpt(argv, "--security-opt", "no-new-privileges")
    /\ HasWord(argv, "--read-only")
    /\ HasOpt(argv, "-v", ws \o ":/workspace:rw")
    /\ Cardinality({i \in DOMAIN argv :
           argv[i] \in {"-v", "--volume", "--mount", "--tmpfs",
                        "--volumes-from"}}) = 1
    /\ HasOpt(argv, "--workdir", "/workspace")
    /\ Len(argv) >= 4
    /\ SubSeq(argv, Len(argv) - 3, Len(argv))
          = <<tool.docker_image, "python", "-u", "script.py">>
    /\ \A i \in DOMAIN argv :
          argv[i] \in FixedWords
                      \cup {tool.memory, tool.cpus, tool.docker_image,
                            ws \o ":/workspace:rw"}

\* C6: the submitted code is executed only by the one `docker run` of _run,
\* and that command line always has --rm, --network none, --memory, --cpus,
\* --pids-limit, --security-opt no-new-privileges, --read-only, exactly one
\* bind mount (the workspace, read-write, at /workspace), --workdir
\* /workspace and the entrypoint python -u script.py; it is made of fixed
\* words and configured values only, and no other command is launched
\* besides the docker version, images and pull commands.
C6_ConfinedExecution ==
    /\ \A i \in DOMAIN ops :
          \/ ops[i].argv = <<"shutil.which", "docker">>
          \/ ops[i].argv = <<"docker", "version">>
          \/ ops[i].argv = <<"docker", "images", "-q", self.docker_image>>
          \/ ops[i].argv = <<"docker", "pull", self.docker_image>>
          \/ Confined(ops[i].argv, self, workspace)
    /\ Cardinality({i \in DOMAIN ops : IsRun(ops[i].argv)}) <= 1
    /\ container # NoContainer =>
          /\ Confined(container.argv, self, workspace)
          /\ \E i \in DOMAIN ops :
                ops[i].argv = container.argv /\ ops[i].answer = "started"
    /\ (container = NoContainer) =>
          ~ \E i \in DOMAIN ops : ops[i].answer = "started"

C6_Witness ==
    /\ pc = "done"
    /\ container # NoContainer
    /\ container.state = "exited"
    /\ self.docker_image = "python-sandbox:custom"
    /\ self.memory = "1g"

\* C7: after _run has returned, no container started by the call is still
\* running (a timeout terminates the container, not only the client).
C7_NoContainerOutlivesRun ==
    pc = "done" => (container = NoContainer \/ container.state # "running")

\* the started container's script runs longer than the configured timeout
RanPastTimeout == container # NoContainer /\ container.duration > self.timeout

\* C8: a run whose container does not exit within the configured timeout
\* has the timeout text as its output and the configured timeout, not the
\* script's running time, as its execution time, and the summary returned
\* reports both.
C8_TimeoutOutcome ==
    /\ (RanPastTimeout /\ pc \in {"truncate", "collect", "report", "done", "raised"})
          => /\ raw_output = TimeoutMsg
             /\ execution_time = self.timeout
             /\ execution_time < container.duration
    /\ (RanPastTimeout /\ pc = "done")
          => /\ result.kind = "summary"
             /\ result.execution_time = self.timeout
             /\ result.timeout = self.timeout
             /\ MAX_STDOUT_CHARS >= Len(TimeoutMsg)
                   => result.stdout_display = TimeoutMsg
             /\ MAX_STDOUT_CHARS < Len(TimeoutMsg)
                   => SubSeq(result.stdout_display, 1, MAX_STDOUT_CHARS)
                         = SubSeq(TimeoutMsg, 1, MAX_STDOUT_CHARS)

C8_Witness ==
    /\ pc = "done"
    /\ container # NoContainer
    /\ container.duration = 3
    /\ self.timeout = 1
    /\ result.execution_time = 1
    /\ result.stdout_display = TimeoutMsg

\* the readiness check failed: docker is not on the path, or the version
\* probe exited non-zero, timed out or could not be launched
ProbeFailed ==
    \E i \in DOMAIN ops :
        \/ ops[i].argv = <<"shutil.which", "docker">>
           /\ ops[i].answer = "not_on_path"
        \/ ops[i].argv = <<"docker", "version">>
           /\ ops[i].answer \in {"exit_nonzero", "timeout", "oserror"}

\* C9: when the readiness check fails, _run returns the engine-unavailable
\* report, and no workspace is created, no script written and no container
\* started; nothing but the probe was issued.
C9_EngineUnavailable ==
    ProbeFailed
        => /\ pc = "done"
           /\ result = [kind |-> "docker_unavailable"]
           /\ dirs = {}
           /\ files = <<>>
           /\ workspace = ""
           /\ container = NoContainer
           /\ \A i \in DOMAIN ops :
                 ops[i].argv \in {<<"shutil.which", "docker">>,
                                  <<"docker", "version">>}

C9_Witness ==
    /\ pc = "done"
    /\ result.kind = "docker_unavailable"
    /\ Len(ops) = 2
    /\ ops[2].argv = <<"docker", "version">>
    /\ ops[2].timeout = 5
    /\ ops[2].answer = "timeout"

\* the image-list query and the pull among the operations issued
QueryOps == {i \in DOMAIN ops : ops[i].argv = <<"docker", "images", "-q", self.docker_image>>}
PullOps  == {i \in DOMAIN ops : ops[i].argv = <<"docker", "pull", self.docker_image>>}

\* the call is past pull_docker_image (line 184 or later)
Proceeded ==
    /\ pc \in {"make_workspace", "write_script", "chmod_script", "extra_files",
               "chmod_extra", "docker_run", "waiting", "truncate", "collect",
               "report", "done", "raised"}
    /\ result.kind \in {"none", "summary"}

\* _run returned the failed-to-prepare-image report, with no workspace and
\* no container
PullFailedReport ==
    /\ pc = "done"
    /\ result = [kind |-> "pull_failed", image |-> self.docker_image]
    /\ dirs = {}
    /\ files = <<>>
    /\ workspace = ""
    /\ container = NoContainer
    /\ ~ \E i \in DOMAIN ops : IsRun(ops[i].argv)

\* the parts of C10 that do not depend on why the pull is issued
PullFailureHandled ==
    /\ (dirs # {} \/ container # NoContainer \/ workspace # "")
          => QueryOps # {}
    /\ Cardinality(QueryOps) <= 1 /\ Cardinality(PullOps) <= 1
    /\ \A i \in PullOps :
          /\ ops[i].timeout = 300
          /\ \E q \in QueryOps : q < i
          /\ ops[i].answer # "exit_0" => PullFailedReport
          /\ ops[i].answer = "exit_0" => Proceeded

C11_NoExceptionPropagates ==
    /\ pc # "raised"
    /\ exception = ""
    /\ pc = "done" => result # NoResult

\* the call has computed its execution result (lines 208-235 are behind it)
ExecutionResultComputed ==
    outcome # "none" /\ pc \in {"collect", "report", "done", "raised"}

\* C12: a failure of the artifact collection is not fatal: once the
\* execution result is computed the call ends only by returning the
\* summary, which carries the output and the execution time it had
\* computed.
C12_CollectionFailureNonFatal ==
    (ExecutionResultComputed /\ pc \in {"done", "raised"})
        => /\ pc = "done"
           /\ result.kind = "summary"
           /\ result.stdout_display = stdout_display
           /\ result.execution_time = execution_time

\* the call has collected its artifacts
Collected == pc = "report" \/ (pc = "done" /\ result.kind = "summary")

\* C13: the artifact list of a run holds exactly the files of the workspace
\* other than the submitted script: script.py is never listed, the archive
\* path is set when something is listed, and every listed file has a copy
\* under the output root.
C13_ArtifactsExcludeScript ==
    Collected =>
        LET listed == artifacts.artifact_list
        IN  /\ <<S_script_py>> \notin listed
            /\ outcome # "timeout"
                  => listed = WorkspaceFiles(files, workspace) \ {<<S_script_py>>}
            /\ listed # {} => artifacts.zip_path # ""
            /\ \A r \in listed :
                  \E t \in TimesOfDay :
                     /\ Path(OutputSubdir(t), r) \in artifacts.copied_files
                     /\ Path(OutputSubdir(t), r) \in DOMAIN files

\* the number a string of decimal digits stands for
DigitValue(c) ==
    CASE c = "0" -> 0 [] c = "1" -> 1 [] c = "2" -> 2 [] c = "3" -> 3
      [] c = "4" -> 4 [] c = "5" -> 5 [] c = "6" -> 6 [] c = "7" -> 7
      [] c = "8" -> 8 [] c = "9" -> 9

IsDigit(c) == c \in {"0", "1", "2", "3", "4", "5", "6", "7", "8", "9"}

RECURSIVE DecimalValue(_)
DecimalValue(d) ==
    IF d = <<>> THEN 0
    ELSE 10 * DecimalValue(SubSeq(d, 1, Len(d) - 1)) + DigitValue(d[Len(d)])

\* m is the truncation marker that states the total length n
IsMarkerFor(m, n) ==
    /\ Len(m) > Len(MarkerHead) + Len(MarkerTail)
    /\ SubSeq(m, 1, Len(MarkerHead)) = MarkerHead
    /\ SubSeq(m, Len(m) - Len(MarkerTail) + 1, Len(m)) = MarkerTail
    /\ LET d == SubSeq(m, Len(MarkerHead) + 1, Len(m) - Len(MarkerTail))
       IN  /\ \A i \in DOMAIN d : IsDigit(d[i])
           /\ (Len(d) > 1 => d[1] # "0")
           /\ DecimalValue(d) = n

\* C14: if the raw output is longer than MAX_STDOUT_CHARS the display text
\* is its first MAX_STDOUT_CHARS characters followed by the truncation
\* marker that states the total length of the raw output; otherwise the
\* display text is the raw output unchanged.  The report carries the
\* display text.
C14_Truncation ==
    /\ ExecutionResultComputed =>
          IF Len(raw_output) > MAX_STDOUT_CHARS
          THEN /\ Len(stdout_display) > MAX_STDOUT_CHARS
               /\ SubSeq(stdout_display, 1, MAX_STDOUT_CHARS)
                     = SubSeq(raw_output, 1, MAX_STDOUT_CHARS)
               /\ IsMarkerFor(SubSeq(stdout_display, MAX_STDOUT_CHARS + 1,
                                     Len(stdout_display)),
                              Len(raw_output))
          ELSE stdout_display = raw_output
    /\ (pc = "done" /\ result.kind = "summary")
          => result.stdout_display = stdout_display

\* a run whose 101 characters of output were cut at 100
C14_Witness ==
    /\ pc = "done"
    /\ result.kind = "summary"
    /\ MAX_STDOUT_CHARS = 100
    /\ raw_output = NotFoundMsg
    /\ Len(result.stdout_display) = 100 + Len(MarkerHead) + 3 + Len(MarkerTail)

\* the number of decimal digits of n
RECURSIVE NumDigits(_)
NumDigits(n) == IF n < 10 THEN 1 ELSE 1 + NumDigits(n \div 10)

\* C15 as claimed: the display text surfaced in the report is never longer
\* than the configured cap.
C15_DisplayWithinCap ==
    (pc = "done" /\ result.kind = "summary")
        => Len(result.stdout_display) <= MAX_STDOUT_CHARS

\* C15, amended: the display text surfaced in the report holds at most
\* MAX_STDOUT_CHARS characters of the raw output; it is longer than the cap
\* exactly when the raw output was, and then by the length of the
\* truncation marker, which is appended after the cap.
C15_DisplayWithinCapPlusMarker ==
    (pc = "done" /\ result.kind = "summary")
        => LET shown  == Len(result.stdout_display)
               marker == Len(MarkerHead) + NumDigits(Len(raw_output))
                            + Len(MarkerTail)
           IN  /\ shown <= MAX_STDOUT_CHARS + marker
               /\ shown > MAX_STDOUT_CHARS <=> Len(raw_output) > MAX_STDOUT_CHARS
               /\ shown > MAX_STDOUT_CHARS => shown = MAX_STDOUT_CHARS + marker

\* the timeout text cut at 2 characters: the report shows 2 characters of
\* it and the marker
C15_Witness ==
    /\ pc = "done"
    /\ result.kind = "summary"
    /\ MAX_STDOUT_CHARS = 2
    /\ raw_output = TimeoutMsg
    /\ Len(result.stdout_display) = 2 + Len(MarkerHead) + 2 + Len(MarkerTail)

\* C16: two concurrent calls never get the same workspace directory from
\* make_run_workspace, so never write their script.py into the same
\* directory.
C16_DistinctWorkspaces ==
    \A r1, r2 \in DOMAIN runs :
        (r1 # r2 /\ runs[r1].workspace # "" /\ runs[r2].workspace # "")
            => runs[r1].workspace # runs[r2].workspace

\* C17: any two calls copy their artifacts into different subdirectories of
\* the output root.
C17_DistinctOutputDirs ==
    \A r1, r2 \in DOMAIN runs :
        (r1 # r2 /\ runs[r1].outdir # "" /\ runs[r2].outdir # "")
            => runs[r1].outdir # runs[r2].outdir

\* the fixed parts of the messages of a CodeSafetyError
ViolationKinds ==
    {"AST parsing error", "Forbidden import detected",
     "Import not allowed by policy", "Forbidden import from detected",
     "Forbidden builtin usage", "Forbidden attribute call detected",
     "Forbidden function call detected"}

\* every verdict recorded equals the first, is an acceptance or one
\* violation that a node of the source raises, and is the verdict _run gave
VerdictsAgree ==
    \A i \in DOMAIN verdicts :
        /\ verdicts[i] = verdicts[1]
        /\ \/ verdicts[i] = NoViolation
           \/ /\ verdicts[i].kind \in ViolationKinds
              /\ \/ code = Unparseable
                 \/ \E n \in Nodes(code) : NodeViolation(n) = verdicts[i]
        /\ pc = "done" => result = [kind |-> "rejected", error |-> verdicts[i]]
        /\ pc = "check_docker" => verdicts[i] = NoViolation

ProbeOps == {i \in DOMAIN ops : ops[i].argv = <<"docker", "version">>}
WhichOps == {i \in DOMAIN ops : ops[i].argv = <<"shutil.which", "docker">>}
RunOps   == {i \in DOMAIN ops : IsRun(ops[i].argv)}

\* each engine operation is issued at most once
IssuedAtMostOnce ==
    /\ Cardinality(WhichOps) <= 1
    /\ Cardinality(ProbeOps) <= 1
    /\ Cardinality(QueryOps) <= 1
    /\ Cardinality(PullOps) <= 1
    /\ Cardinality(RunOps) <= 1

\* operation i failed, as the host answered it
ProbeOpFailed(i) ==
    \/ i \in WhichOps /\ ops[i].answer = "not_on_path"
    \/ i \in ProbeOps /\ ops[i].answer # "exit_0"
QueryOpFailed(i) == i \in QueryOps /\ ops[i].answer \in {"failed", "raised"}
PullOpFailed(i)  == i \in PullOps /\ ops[i].answer # "exit_0"
RunOpFailed(i) ==
    /\ i \in RunOps
    /\ \/ ops[i].answer \in {"not_found", "raised", "refused"}
       \/ ops[i].answer = "started" /\ outcome = "timeout"

\* the call has returned the report of its failed stage
TerminalReport(kinds) == pc = "done" /\ result.kind \in kinds

\* after a failed container run nothing is issued again: the call caps the
\* error text, collects, and returns the summary
RunFailureSurfaced(i) ==
    /\ i = Len(ops)
    /\ pc \in {"truncate", "collect", "report", "done", "raised"}
    /\ pc = "done" => result.kind = "summary"
    /\ ops[i].answer = "not_found" => raw_output = NotFoundMsg
    /\ ops[i].answer = "raised" => raw_output = ExecErrorMsg
    /\ ops[i].answer = "refused" => raw_output = EngineRefusedMsg
    /\ ops[i].answer = "started" => raw_output = TimeoutMsg

IsSingleFromImport(src) ==
    /\ src.t = "Module"
    /\ Len(src.ch) = 1
    /\ src.ch[1].t = "ImportFrom"

\* accepted, forbidden, or not allowed by policy
VerdictClass(v) ==
    IF v = NoViolation THEN "accepted"
    ELSE IF v.kind \in {"Forbidden import detected",
                        "Forbidden import from detected"} THEN "forbidden"
    ELSE IF v.kind = "Import not allowed by policy" THEN "policy"
    ELSE "other"

\* the verdict of the validation step of _run
RunVerdict == IF Rejected THEN result.error ELSE NoViolation

\* the rule of `import m` (C4) holds for the from-import of the module m
\* that _run has validated
RuleOfImportHolds(m) ==
    LET globs   == ALLOWED_IMPORT_PATTERNS
        denied  == \E r \in DenySet : IsRootedIn(m, r)
        allowed == \/ globs = <<>>
                   \/ \E i \in DOMAIN globs :
                         \/ GlobMatches(m, globs[i])
                         \/ GlobMatches(RootName(m), globs[i])
    IN  /\ Accepted <=> (~ denied /\ allowed)
        /\ denied => RejectedAs("Forbidden import from detected")
        /\ (~ denied /\ ~ allowed)
              => RejectedAs("Import not allowed by policy")

C21_ScriptIsValidatedSource ==
    /\ pc \in {"chmod_script", "extra_files", "chmod_extra", "docker_run"}
          => files[ScriptPath(workspace)].data = code
    /\ container # NoContainer => container.script = code

\* b is the part of the attachment name after its last "/"
IsBaseOf(b, name) ==
    /\ \A i \in DOMAIN b : b[i] # "/"
    /\ \/ name = b
       \/ /\ Len(name) > Len(b)
          /\ SubSeq(name, Len(name) - Len(b), Len(name)) = <<"/">> \o b

\* the path is a file directly inside the workspace
IsDirectChild(p) ==
    /\ p[1] = workspace
    /\ Len(p[2]) = 1
    /\ p[2][1] \notin {<<>>, <<".">>, <<".", ".">>}
    /\ \A i \in DOMAIN p[2][1] : p[2][1][i] # "/"

C23_CopiesAllButTopLevelScript ==
    Collected =>
        \A r \in artifacts.artifact_list \ {<<S_script_py>>} :
            \E t \in TimesOfDay :
               /\ Path(OutputSubdir(t), r) \in DOMAIN files
               /\ Path(OutputSubdir(t), r) \in artifacts.copied_files
               /\ outcome # "timeout"
                     => files[Path(OutputSubdir(t), r)]
                           = files[Path(workspace, r)]


\* ------------------------------------------------------------------------
\* C24: when the workspace holds at least one file after the run,
\* collect_artifacts returns the path artifacts_<workspace basename>.zip
\* under SANDBOX_BASE_DIR, and at that path there is one archive whose
\* members are the files found in the whole workspace, the script
\* included.
\* ------------------------------------------------------------------------
C24_ArchiveAtReturnedPath ==
    (Collected /\ artifacts.artifact_list # {}) =>
        /\ artifacts.zip_path = Join(ZipPath(workspace))
        /\ Path(artifacts.zip_path, <<>>) \in DOMAIN files
        /\ LET zip == files[Path(artifacts.zip_path, <<>>)].data
           IN  /\ zip.t = "zip"
               /\ {m[1] : m \in zip.members} = artifacts.artifact_list
               /\ <<S_script_py>> \in {m[1] : m \in zip.members}


\* ------------------------------------------------------------------------
\* C25: when the container ran to its exit within the call, whatever its
\* exit status, the run is a completed one: no error or timeout branch is
\* taken, the output is what the script printed, the execution time is the
\* measured duration, and the call ends with the execution summary that
\* shows them (or with the exception of the artifact collection).
\* ------------------------------------------------------------------------
ClientSawExit == container # NoContainer /\ "returncode" \in DOMAIN container

C25_ExitCodeNotAnError ==
    ClientSawExit =>
        /\ outcome = "completed"
        /\ raw_output = container.stdout
        /\ execution_time = container.duration
        /\ pc \in {"truncate", "collect", "report", "done", "raised"}
        /\ pc \in {"collect", "report", "done"} =>
               stdout_display = Truncate(container.stdout, MAX_STDOUT_CHARS)
        /\ pc = "done" =>
               /\ result.kind = "summary"
               /\ result.execution_time = container.duration
               /\ result.stdout_display =
                      Truncate(container.stdout, MAX_STDOUT_CHARS)
        /\ pc = "raised" => exception = "OSError"

C25_Witness ==
    /\ ClientSawExit
    /\ container.returncode = 1
    /\ container.stdout # <<>>
    /\ pc = "done"
    /\ result.kind = "summary"


\* ------------------------------------------------------------------------
\* C26: every call of _run that is carried on eventually ends, by a return
\* or by an exception.
\* ------------------------------------------------------------------------
C26_EveryCallEnds == <>(pc \in {"done", "raised"})


\* ------------------------------------------------------------------------
\* C27: in every state, the script file and every attachment file that
\* exists in the workspace has a mode with no execute bit and no bit for
\* group or others.
\* ------------------------------------------------------------------------
\* mode & 0o177 = 0
OwnerReadWriteOnly(mode) == mode % 64 = 0 /\ (mode \div 64) % 2 = 0

WrittenByCall ==
    {ScriptPath(workspace)}
        \cup {SafeFname(workspace, extra_files[i][1]) : i \in DOMAIN extra_files}

C27_OwnerOnlyInEveryState ==
    workspace # "" =>
        \A p \in WrittenByCall \cap DOMAIN files :
            OwnerReadWriteOnly(files[p].mode)


\* ------------------------------------------------------------------------
\* C28: when a custom image is requested and the build fails, by a status
\* other than 0 or because the docker binary cannot be launched, the
\* construction completes with docker_image at the value it had and
\* without the temporary directory; docker_image changes only in a step in
\* which the build succeeds, and then to the custom tag.
\* ------------------------------------------------------------------------
BuildOps == {i \in DOMAIN ops : ops[i].argv[2] = "build"}

BuildFailed == \E i \in BuildOps : ops[i].answer \in {"exit_nonzero", "not_found"}

TempDirRemoved ==
    /\ temp_dir \notin dirs
    /\ \A p \in DOMAIN files : p[1] # temp_dir

C28_BuildFailureFallsBack ==
    /\ [](BuildFailed =>
             /\ pc \in {"rmtree", "constructed"}
             /\ pc = "constructed" => TempDirRemoved)
    /\ [][/\ BuildFailed' => self' = self
          /\ self' # self =>
                /\ ops'[Len(ops')].answer = "exit_0"
                /\ self'.docker_image = CUSTOM_IMAGE]_vars


\* ------------------------------------------------------------------------
\* C29: the step that collects the artifacts leaves the run workspace as it
\* was, the same files with the same contents and modes, and the workspace
\* directory exists when _run has returned.
\* ------------------------------------------------------------------------
WorkspaceContent(fs, ws) == [r \in WorkspaceFiles(fs, ws) |-> fs[Path(ws, r)]]

C29_CollectionKeepsWorkspace ==
    /\ []((pc = "done" /\ workspace # "") => workspace \in dirs)
    /\ [][(pc = "collect" /\ pc' # "collect") =>
             /\ workspace' = workspace
             /\ workspace \in dirs'
             /\ WorkspaceContent(files', workspace)
                    = WorkspaceContent(files, workspace)]_vars

C29_Witness ==
    /\ pc = "report"
    /\ artifacts.copied_files # {}
    /\ Path(ArchivePath(ZipPath(workspace)), <<>>) \in DOMAIN files
    /\ <<S_out_txt>> \in WorkspaceFiles(files, workspace)
    /\ ScriptPath(workspace) \in DOMAIN files


\* ------------------------------------------------------------------------
\* C30: validate_code_ast without the rule of lines 68-70 (a call whose
\* callee is a bare forbidden builtin name) accepts exactly the sources
\* that validate_code_ast accepts.
\* ------------------------------------------------------------------------
\* lines 62-67: the call rule without lines 68-70
CallViolationAttributeOnly(node) ==
    LET func == node.ch[1]
    IN  IF func.t = "Attribute" /\ func.id \in FORBIDDEN_ATTRS
        THEN Violation("Forbidden attribute call detected", func.id, <<>>)
        ELSE NoViolation

\* lines 43-67
NodeViolationWithoutCallName(node) ==
    LET imp  == IF node.t = "Import" THEN ImportAliasViolation(node.ch)
                ELSE NoViolation
        frm  == IF node.t = "ImportFrom" THEN ImportFromViolation(node)
                ELSE NoViolation
        nam  == IF node.t = "Name" THEN NameViolation(node) ELSE NoViolation
        cal  == IF node.t = "Call" THEN CallViolationAttributeOnly(node)
                ELSE NoViolation
    IN  IF imp # NoViolation THEN imp
        ELSE IF frm # NoViolation THEN frm
        ELSE IF nam # NoViolation THEN nam
        ELSE cal

RECURSIVE FirstViolationWithoutCallName(_)
FirstViolationWithoutCallName(nodes) ==
    IF nodes = <<>> THEN NoViolation
    ELSE IF NodeViolationWithoutCallName(Head(nodes)) # NoViolation
    THEN NodeViolationWithoutCallName(Head(nodes))
    ELSE FirstViolationWithoutCallName(Tail(nodes))

ValidateWithoutCallName(src) ==
    IF src.t = "Unparseable"
    THEN Violation("AST parsing error", "", <<>>)
    ELSE FirstViolationWithoutCallName(Walk(src))

C30_CallNameRuleRedundant ==
    /\ pc # "validate" =>
           (Rejected <=> ValidateWithoutCallName(code) # NoViolation)
    /\ \A i \in DOMAIN verdicts :
           (verdicts[i] = NoViolation)
               <=> (ValidateWithoutCallName(code) = NoViolation)

C30_Witness ==
    /\ Rejected
    /\ result.error.kind = "Forbidden function call detected"
    /\ ValidateWithoutCallName(code).kind = "Forbidden builtin usage"
    /\ ValidateWithoutCallName(code).id = result.error.id
====
